---- MODULE Spec2Model ----
(***************************************************************************)
(* FoodAgent: the search-and-relaxation engine FoodAPIService.smart_search *)
(* (src/food_api_service.py; src/baidu/food_api_service.py is the same     *)
(* algorithm over another provider).  One request is one run of the state  *)
(* machine: every provider call is an await point, so every action below   *)
(* is the code from one await up to the next await or to the return.       *)
(*                                                                         *)
(* Prices are strings in the code ("60.5", "60.5元", "暂无", "").  A price  *)
(* string is modelled by the record [text, halves, unit]: text is its      *)
(* shape, halves its numeric value counted in half yuan (so 2.5 is 5),     *)
(* unit whether a trailing currency unit is present.                       *)
(***************************************************************************)
EXTENDS Integers, Sequences, FiniteSets, TLC

\* ---------------------------------------------------------------- bounds
MaxVenues == 11
MaxBudget == 2
\* the number of JSON-RPC requests the agent receives
MaxRequests == 3

\* ------------------------------------------------------ program constants
LowResultThreshold == 10
FallbackSize == 5

None == "None"
GenericTerm == "food"
GenericTypes == "050000"

Truthy(s) == s # None /\ s # ""

\* budget_max: Optional[int]; -1 stands for None.
NoBudget == 0 - 1
\* faulty variant: `if budget_max == 0` instead of `if not budget_max`
BudgetFalsyZeroOnly(b) == b = 0

BudgetFalsy(b) == b = NoBudget \/ b = 0

food_types ==
    [c \in {"Sichuan", "Cantonese", "Hunan", "hotpot", "seafood", "Japanese"} |->
        CASE c = "Sichuan" -> "050116"
          [] c = "Cantonese" -> "050117"
          [] c = "Hunan" -> "050119"
          [] c = "hotpot" -> "050300"
          [] c = "seafood" -> "050115"
          [] c = "Japanese" -> "050201"]

taste_keywords ==
    [t \in {"light", "spicy", "fresh"} |->
        CASE t = "light" -> <<"Cantonese", "Japanese", "vegetarian">>
          [] t = "spicy" -> <<"Sichuan", "Hunan", "hotpot">>
          [] t = "fresh" -> <<"seafood", "Japanese", "Cantonese">>]

get_type_code(c) == IF c \in DOMAIN food_types THEN food_types[c] ELSE None

get_cuisines_by_taste(t) == IF t \in DOMAIN taste_keywords THEN taste_keywords[t] ELSE <<>>

\* --------------------------------------------------------------- prices
Num(h, u) == [text |-> "num", halves |-> h, unit |-> u]
Blank == [text |-> "blank", halves |-> 0, unit |-> FALSE]
Sentinel == [text |-> "sentinel", halves |-> 0, unit |-> FALSE]
Words == [text |-> "words", halves |-> 0, unit |-> FALSE]
\* the number 0, and the strings 'nan' and 'inf' that float() accepts
Zero == [text |-> "zero", halves |-> 0, unit |-> FALSE]
NaN == [text |-> "nan", halves |-> 0, unit |-> FALSE]
Inf == [text |-> "inf", halves |-> 0, unit |-> FALSE]

\* `if price and price != "暂无"`
PricePresent(price) == price.text \notin {"blank", "zero", "sentinel"}

\* float(str(price).replace("元", "").strip()) raises ValueError on a non-number
FloatRaises(price) == price.text = "words"

\* int(float('nan')) raises ValueError, which the loop catches
IntRaisesValueError(price) == price.text = "nan"

\* int(float('inf')) raises OverflowError, which `except (ValueError, TypeError)`
\* does not catch
IntRaisesOverflowError(price) == price.text = "inf"

\* int(float(...)): truncation of the value, here counted in halves
price_num(price) == price.halves \div 2

\* one iteration of the loop of _filter_by_budget
Keeps(r, budget, include_unknown) ==
    IF PricePresent(r.cost)
    THEN IF FloatRaises(r.cost) \/ IntRaisesValueError(r.cost) THEN include_unknown
         ELSE price_num(r.cost) <= budget
    ELSE include_unknown

_filter_by_budget(restaurants, budget, include_unknown) ==
    SelectSeq(restaurants, LAMBDA r : Keeps(r, budget, include_unknown))

\* the loop meets a price whose conversion raises an exception it does not
\* catch: _filter_by_budget raises instead of returning a list
FilterRaises(restaurants) ==
    \E k \in 1..Len(restaurants) :
        PricePresent(restaurants[k].cost) /\ IntRaisesOverflowError(restaurants[k].cost)

\* faulty variant: the ceiling is halved instead of raised by half
relaxed_budget_half(budget) == budget \div 2

\* int(budget_max * 1.5)
relaxed_budget(budget) == (3 * budget) \div 2

\* ---------------------------------------------------------------- state
\* the arguments of one smart_search call, its locals, and the history of the call
VARIABLES
    location, taste, cuisine, budget_max, keywords,
    pc, final_keywords, final_types, result, idx,
    existing_ids, all_restaurants, existing_relaxed,
    calls, ladder, ret,
    \* the further arguments of resolve_location
    address, city, ip,
    \* the pair resolve_location returned
    resolved,
    \* the agent of the JSON-RPC endpoint: its task store, the tasks/send
    \* requests whose skill handler is awaited, the responses sent so far
    tasks, running, responses

\* ------------------------------------------------------------- provider
Ids == 1..MaxVenues

\* a place around which the provider lists venues with unusual cost values
OddPlace == "121.5,31.2"

\* The provider's catalogue: the raw POIs it can answer with, nearest first.
\* Prices: "1元", "", "3元", a non-number, "3.5元", "2.5", and "9元" for the rest;
\* around OddPlace: the number 0, 'nan', 'inf', "3元", and "9元" for the rest.
RawCost(i) ==
    IF location = OddPlace
    THEN CASE i = 1 -> Zero
           [] i = 2 -> NaN
           [] i = 3 -> Inf
           [] i = 4 -> Num(6, TRUE)
           [] OTHER -> Num(18, TRUE)
    ELSE CASE i = 1 -> Num(2, TRUE)
           [] i = 2 -> Blank
           [] i = 3 -> Num(6, TRUE)
           [] i = 4 -> Words
           [] i = 5 -> Num(7, TRUE)
           [] i = 6 -> Num(5, FALSE)
           [] OTHER -> Num(18, TRUE)

\* the search terms a POI matches (every POI matches the generic term)
Dishes(i) ==
    {"Sichuan", "noodles"}
        \cup (IF i <= 3 THEN {"Hunan"} ELSE {})
        \cup (IF i >= 2 /\ i <= 4 THEN {"hotpot"} ELSE {})

RawPoi(i) == [id |-> i, cost |-> RawCost(i)]

\* _parse_single_poi: `business.get("cost", "") or "暂无"`
_parse_single_poi(poi) ==
    [id |-> poi.id,
     cost |-> IF poi.cost.text \in {"blank", "zero"} THEN Sentinel ELSE poi.cost]

PageLens == {1, 2, 6, LowResultThreshold, MaxVenues}

RECURSIVE RunOf(_, _)
RunOf(lo, hi) == IF lo > hi THEN <<>> ELSE <<lo>> \o RunOf(lo + 1, hi)

Matching(kw) ==
    SelectSeq(RunOf(1, MaxVenues),
              LAMBDA i : kw = None \/ kw = GenericTerm \/ kw \in Dishes(i))

\* The lists of POIs one search for kw can return: nothing, or one page of
\* consecutive matching POIs.
Pages(kw) ==
    {<<>>} \cup
    {SubSeq(Matching(kw), lo, lo + n - 1) :
        <<lo, n>> \in {p \in (1..MaxVenues) \X PageLens :
                          p[1] + p[2] - 1 <= Len(Matching(kw))}}

\* faulty variant: count is the provider's total, not the length of the page
_parse_poi_results_total(pois) ==
    [restaurants |-> [k \in 1..Len(pois) |-> _parse_single_poi(RawPoi(pois[k]))],
     count |-> MaxVenues, relaxed |-> <<>>, error |-> FALSE]

\* _parse_poi_results
_parse_poi_results(pois) ==
    [restaurants |-> [k \in 1..Len(pois) |-> _parse_single_poi(RawPoi(pois[k]))],
     count |-> Len(pois), relaxed |-> <<>>, error |-> FALSE]

\* {"error": ..., "restaurants": []}: no "count" key (-1), the error marker set
ErrorResult == [restaurants |-> <<>>, count |-> 0 - 1, relaxed |-> <<>>, error |-> TRUE]

\* What one search_nearby / search_by_keyword call can return.
Responses(kw) == {ErrorResult} \cup {_parse_poi_results(p) : p \in Pages(kw)}

\* _do_search: the request that goes out
Request(loc, kw, types) ==
    IF loc # "unknown" /\ loc # ""
    THEN [api |-> "around", keywords |-> IF Truthy(kw) THEN kw ELSE None,
          types |-> IF Truthy(types) THEN types ELSE GenericTypes]
    ELSE [api |-> "text", keywords |-> IF Truthy(kw) THEN kw ELSE GenericTerm,
          types |-> IF Truthy(types) THEN types ELSE GenericTypes]

\* ---------------------------------------------------------------- notes
Note(t, n) == [text |-> t, yuan |-> n]
NoteBroadened == Note("scope broadened (taste/cuisine relaxed)", 0)
NoteLoosened(n) == Note("budget loosened to", n)
NoteUnknown == Note("included venues with unknown price", 0)
NoteGeneric == Note("scope broadened (taste/cuisine removed)", 0)
NoteFallback == Note("no venue within budget, nearby venues shown", 0)

\* f"{existing_relaxed}，{relaxed_msg}" if existing_relaxed else relaxed_msg
JoinNote(existing, msg) == IF existing # <<>> THEN Append(existing, msg) ELSE <<msg>>

vars == <<location, taste, cuisine, budget_max, keywords,
          pc, final_keywords, final_types, result, idx,
          existing_ids, all_restaurants, existing_relaxed, calls, ladder, ret,
          address, city, ip, resolved, tasks, running, responses>>

args == <<location, taste, cuisine, budget_max, keywords>>

\* what one call of smart_search neither reads nor writes
outside == <<address, city, ip, resolved, tasks, running, responses>>

\* `default_city = "北京"`, also the default of smart_search's city parameter
default_city == "Beijing"

\* self.tasks = {}
NoTasks == [t \in {} |-> {}]

\* no location is being resolved and the agent has served nothing yet
OutsideIdle ==
    /\ address = None
    /\ city = default_city
    /\ ip = None
    /\ resolved = <<None, None>>
    /\ tasks = NoTasks
    /\ running = {}
    /\ responses = <<>>

EmptyResult == [restaurants |-> <<>>, count |-> 0, relaxed |-> <<>>, error |-> FALSE]

\* the values a caller passes: nothing, a mapped taste, an unmapped taste, ...
TasteValues == {None, "spicy", "sweet"}
CuisineValues == {None, "Sichuan"}
KeywordValues == {None, "noodles"}

Init ==
    /\ location \in {"116.4,39.9", "unknown"}
    /\ taste \in TasteValues
    /\ cuisine \in CuisineValues
    /\ keywords \in KeywordValues
    /\ budget_max \in {NoBudget} \cup (0..MaxBudget)
    /\ pc = "start"
    /\ final_keywords = None
    /\ final_types = None
    /\ result = EmptyResult
    /\ idx = 0
    /\ existing_ids = {}
    /\ all_restaurants = <<>>
    /\ existing_relaxed = <<>>
    /\ calls = <<>>
    /\ ladder = <<>>
    /\ ret = None
    /\ OutsideIdle

\* ------------------------------------------------------------ operations
\* faulty variant: free-text keywords are looked at before the explicit cuisine
ChooseKeywordsFirst(c, k, t) ==
    IF Truthy(k) THEN k
    ELSE IF Truthy(c) THEN c
    ELSE IF Truthy(t) /\ get_cuisines_by_taste(t) # <<>> THEN get_cuisines_by_taste(t)[1]
    ELSE None

\* the keyword / type strategy at the head of smart_search
ChooseKeywords(c, k, t) ==
    IF Truthy(c) THEN c
    ELSE IF Truthy(k) THEN k
    ELSE IF Truthy(t) /\ get_cuisines_by_taste(t) # <<>> THEN get_cuisines_by_taste(t)[1]
    ELSE None

ChooseTypes(c, k, t) ==
    IF Truthy(c) THEN get_type_code(c)
    ELSE IF Truthy(k) THEN None
    ELSE IF Truthy(t) /\ get_cuisines_by_taste(t) # <<>>
         THEN get_type_code(get_cuisines_by_taste(t)[1])
    ELSE None

IdsOf(restaurants) == {restaurants[k].id : k \in 1..Len(restaurants)}

\* `if taste and not cuisine and result.get("restaurants")` and the inner `if`
MergeCond(res) ==
    /\ Truthy(taste)
    /\ ~Truthy(cuisine)
    /\ res.restaurants # <<>>
    /\ Len(get_cuisines_by_taste(taste)) > 1
    /\ Len(res.restaurants) < LowResultThreshold

\* faulty variant: the membership test is lost, every venue counts as new
IsNewAlways(r, seen) == TRUE

\* `if r["id"] not in existing_ids`
IsNew(r, seen) == r.id \notin seen

\* faulty variant: new venues are inserted at the head of the list instead of appended
RECURSIVE MergeIntoFront(_, _, _)
MergeIntoFront(restaurants, seen, others) ==
    IF others = <<>> THEN <<restaurants, seen>>
    ELSE IF Head(others).id \notin seen
         THEN MergeIntoFront(<<Head(others)>> \o restaurants,
                             seen \cup {Head(others).id}, Tail(others))
         ELSE MergeIntoFront(restaurants, seen, Tail(others))

\* faulty variant: an additional search that brings nothing back wipes the merged list
MergeIntoReset(restaurants, seen, others) ==
    IF others = <<>> THEN << <<>>, {} >>
    ELSE <<restaurants \o SelectSeq(others, LAMBDA r : r.id \notin seen),
           seen \cup IdsOf(others)>>

\* the inner loop over other_result["restaurants"]: <<list, seen ids>>
RECURSIVE MergeInto(_, _, _)
MergeInto(restaurants, seen, others) ==
    IF others = <<>> THEN <<restaurants, seen>>
    ELSE IF IsNew(Head(others), seen)
         THEN MergeInto(Append(restaurants, Head(others)),
                        seen \cup {Head(others).id}, Tail(others))
         ELSE MergeInto(restaurants, seen, Tail(others))

\* faulty variant: the scope is broadened only when a budget was supplied
BroadenCondBudgetOnly(res, fk) ==
    res.restaurants = <<>> /\ Truthy(fk) /\ budget_max # 0 - 1 /\ budget_max # 0

\* `if not result.get("restaurants") and final_keywords`
BroadenCond(res, fk) == res.restaurants = <<>> /\ Truthy(fk)

\* faulty variant: the scope is broadened after every merge
AfterMergeBroaden(res, fk) == "broaden"

AfterMerge(res, fk) == IF BroadenCond(res, fk) THEN "broaden" ELSE "check"

AfterPrimary(res, fk) == IF MergeCond(res) THEN "merge" ELSE AfterMerge(res, fk)

Call(step, req, resp) ==
    [step |-> step, api |-> req.api, keywords |-> req.keywords,
     types |-> req.types, resp |-> resp]

Outcome(k, filtered) == [k |-> k, n |-> Len(filtered)]

\* faulty variant: the `return` after a match is lost, every strategy falls through
MatchedNever(filtered) == FALSE

\* `if filtered:` -- a strategy returns as soon as its filter kept something
Matched(filtered) == filtered # <<>>

\* faulty variant: the fallback forgets the [:5] slice
FirstFiveUncut(restaurants) == restaurants

\* all_restaurants[:5]
FirstFive(restaurants) ==
    SubSeq(restaurants, 1,
           IF Len(restaurants) < FallbackSize THEN Len(restaurants) ELSE FallbackSize)

\* lines 417-433, and the conditions that lead to the next await
PrimarySearch ==
    /\ pc = "start"
    /\ LET fk == ChooseKeywords(cuisine, keywords, taste)
           ft == ChooseTypes(cuisine, keywords, taste)
           req == Request(location, fk, ft)
       IN \E resp \in Responses(req.keywords) :
            /\ final_keywords' = fk
            /\ final_types' = ft
            /\ result' = resp
            /\ calls' = Append(calls, Call("primary", req, resp))
            /\ existing_ids' = IF MergeCond(resp) THEN IdsOf(resp.restaurants) ELSE {}
            /\ idx' = IF MergeCond(resp) THEN 2 ELSE 0
            /\ pc' = AfterPrimary(resp, fk)
    /\ UNCHANGED <<args, outside, all_restaurants, existing_relaxed, ladder, ret>>

\* lines 440-447: one iteration of `for other_cuisine in cuisines[1:]`
MergeSearch ==
    /\ pc = "merge"
    /\ LET cuisines == get_cuisines_by_taste(taste)
           other_cuisine == cuisines[idx]
           req == Request(location, other_cuisine, get_type_code(other_cuisine))
           last == idx = Len(cuisines)
       IN \E other_result \in Responses(req.keywords) :
            LET m == MergeInto(result.restaurants, existing_ids, other_result.restaurants)
                merged == [result EXCEPT !.restaurants = m[1],
                                         !.count = IF last THEN Len(m[1]) ELSE @]
            IN /\ result' = merged
               /\ existing_ids' = m[2]
               /\ calls' = Append(calls, Call("merge", req, other_result))
               /\ idx' = idx + 1
               /\ pc' = IF last THEN AfterMerge(merged, final_keywords) ELSE "merge"
    /\ UNCHANGED <<args, outside, final_keywords, final_types, all_restaurants,
                   existing_relaxed, ladder, ret>>

\* faulty variant: the broader result is never assigned to result
BroadenedDropped(broader_result, res) == res

\* lines 452-454: the broader result replaces the empty one only if it has venues
Broadened(broader_result, res) ==
    IF broader_result.restaurants # <<>>
    THEN [broader_result EXCEPT !.relaxed = <<NoteBroadened>>]
    ELSE res

\* lines 449-454
BroadenSearch ==
    /\ pc = "broaden"
    /\ LET req == Request(location, GenericTerm, GenericTypes)
       IN \E broader_result \in Responses(req.keywords) :
            /\ result' = Broadened(broader_result, result)
            /\ calls' = Append(calls, Call("broaden", req, broader_result))
            /\ pc' = "check"
    /\ UNCHANGED <<args, outside, final_keywords, final_types, idx, existing_ids,
                   all_restaurants, existing_relaxed, ladder, ret>>

\* lines 456-457
ReturnEmpty ==
    /\ pc = "check"
    /\ result.restaurants = <<>>
    /\ pc' = "done"
    /\ ret' = "empty"
    /\ UNCHANGED <<args, outside, final_keywords, final_types, result, idx, existing_ids,
                   all_restaurants, existing_relaxed, calls, ladder>>

\* lines 459-461
ReturnNoBudget ==
    /\ pc = "check"
    /\ result.restaurants # <<>>
    /\ BudgetFalsy(budget_max)
    /\ pc' = "done"
    /\ ret' = "no budget"
    /\ UNCHANGED <<args, outside, final_keywords, final_types, result, idx, existing_ids,
                   all_restaurants, existing_relaxed, calls, ladder>>

\* an OverflowError leaves _filter_by_budget and smart_search: nothing is returned
Overflow ==
    /\ pc' = "raised"
    /\ ret' = "OverflowError"
    /\ UNCHANGED <<result, ladder>>

\* lines 463-471
Strategy1 ==
    /\ pc = "check"
    /\ result.restaurants # <<>>
    /\ ~BudgetFalsy(budget_max)
    /\ all_restaurants' = result.restaurants
    /\ existing_relaxed' = result.relaxed
    /\ IF FilterRaises(result.restaurants)
       THEN Overflow
       ELSE
       LET filtered == _filter_by_budget(result.restaurants, budget_max, FALSE)
       IN /\ ladder' = Append(ladder, Outcome(1, filtered))
          /\ IF Matched(filtered)
             THEN /\ result' = [result EXCEPT !.restaurants = filtered,
                                              !.count = Len(filtered)]
                  /\ pc' = "done"
                  /\ ret' = "strategy 1"
             ELSE /\ pc' = "s2"
                  /\ UNCHANGED <<result, ret>>
    /\ UNCHANGED <<args, outside, final_keywords, final_types, idx, existing_ids, calls>>

\* lines 473-481
Strategy2 ==
    /\ pc = "s2"
    /\ IF FilterRaises(all_restaurants)
       THEN Overflow
       ELSE
       LET filtered == _filter_by_budget(all_restaurants, relaxed_budget(budget_max), FALSE)
       IN /\ ladder' = Append(ladder, Outcome(2, filtered))
          /\ IF Matched(filtered)
             THEN /\ result' = [result EXCEPT
                        !.restaurants = filtered,
                        !.count = Len(filtered),
                        !.relaxed = JoinNote(existing_relaxed,
                                             NoteLoosened(relaxed_budget(budget_max)))]
                  /\ pc' = "done"
                  /\ ret' = "strategy 2"
             ELSE /\ pc' = "s3"
                  /\ UNCHANGED <<result, ret>>
    /\ UNCHANGED <<args, outside, final_keywords, final_types, idx, existing_ids,
                   all_restaurants, existing_relaxed, calls>>

\* lines 483-490
Strategy3 ==
    /\ pc = "s3"
    /\ IF FilterRaises(all_restaurants)
       THEN Overflow
       ELSE
       LET filtered == _filter_by_budget(all_restaurants, budget_max, TRUE)
       IN /\ ladder' = Append(ladder, Outcome(3, filtered))
          /\ IF Matched(filtered)
             THEN /\ result' = [result EXCEPT
                        !.restaurants = filtered,
                        !.count = Len(filtered),
                        !.relaxed = JoinNote(existing_relaxed, NoteUnknown)]
                  /\ pc' = "done"
                  /\ ret' = "strategy 3"
             ELSE /\ pc' = "s4"
                  /\ UNCHANGED <<result, ret>>
    /\ UNCHANGED <<args, outside, final_keywords, final_types, idx, existing_ids,
                   all_restaurants, existing_relaxed, calls>>

\* lines 492-501, `if final_keywords` taken
Strategy4Search ==
    /\ pc = "s4"
    /\ Truthy(final_keywords)
    /\ LET req == Request(location, GenericTerm, GenericTypes)
       IN \E broader_result \in Responses(req.keywords) :
            /\ calls' = Append(calls, Call("strategy 4", req, broader_result))
            /\ IF FilterRaises(broader_result.restaurants)
               THEN Overflow
               ELSE
               LET filtered == _filter_by_budget(broader_result.restaurants, budget_max, TRUE)
               IN /\ ladder' = Append(ladder, Outcome(4, filtered))
                  /\ IF Matched(filtered)
                     THEN /\ result' = [broader_result EXCEPT
                                !.restaurants = filtered,
                                !.count = Len(filtered),
                                !.relaxed = <<NoteGeneric>>]
                          /\ pc' = "done"
                          /\ ret' = "strategy 4"
                     ELSE /\ pc' = "s5"
                          /\ UNCHANGED <<result, ret>>
    /\ UNCHANGED <<args, outside, final_keywords, final_types, idx, existing_ids,
                   all_restaurants, existing_relaxed>>

\* line 493, `if final_keywords` not taken: no search, strategy 4 yields nothing
Strategy4Skip ==
    /\ pc = "s4"
    /\ ~Truthy(final_keywords)
    /\ ladder' = Append(ladder, Outcome(4, <<>>))
    /\ pc' = "s5"
    /\ UNCHANGED <<args, outside, final_keywords, final_types, result, idx, existing_ids,
                   all_restaurants, existing_relaxed, calls, ret>>

\* lines 503-508
Strategy5 ==
    /\ pc = "s5"
    /\ result' = [result EXCEPT
           !.restaurants = FirstFive(all_restaurants),
           !.count = Len(FirstFive(all_restaurants)),
           !.relaxed = JoinNote(existing_relaxed, NoteFallback)]
    /\ ladder' = Append(ladder, Outcome(5, FirstFive(all_restaurants)))
    /\ pc' = "done"
    /\ ret' = "strategy 5"
    /\ UNCHANGED <<args, outside, final_keywords, final_types, idx, existing_ids,
                   all_restaurants, existing_relaxed, calls>>

Next ==
    \/ PrimarySearch
    \/ MergeSearch
    \/ BroadenSearch
    \/ ReturnEmpty
    \/ ReturnNoBudget
    \/ Strategy1
    \/ Strategy2
    \/ Strategy3
    \/ Strategy4Search
    \/ Strategy4Skip
    \/ Strategy5

Spec == Init /\ [][Next]_vars

\* requests made around OddPlace, where the provider's cost values are unusual
InitCosts ==
    /\ location = OddPlace
    /\ taste \in TasteValues
    /\ cuisine \in CuisineValues
    /\ keywords \in KeywordValues
    /\ budget_max \in {NoBudget} \cup (0..MaxBudget)
    /\ pc = "start"
    /\ final_keywords = None
    /\ final_types = None
    /\ result = EmptyResult
    /\ idx = 0
    /\ existing_ids = {}
    /\ all_restaurants = <<>>
    /\ existing_relaxed = <<>>
    /\ calls = <<>>
    /\ ladder = <<>>
    /\ ret = None
    /\ OutsideIdle

SpecCosts == InitCosts /\ [][Next]_vars

\* ------------------------------------------------------ resolve_location
\* Coordinate strings. Callers and the amap API write (longitude,latitude),
\* the Baidu API writes and expects (latitude,longitude).
LngLat == "116.4,39.9"
LatLng == "39.9,116.4"

\* s.split(",") for the strings of the model
Split(s) ==
    CASE s = LngLat -> <<"116.4", "39.9">>
      [] s = LatLng -> <<"39.9", "116.4">>
      [] s = "1,2,3" -> <<"1", "2", "3">>
      [] OTHER -> <<s>>

\* f"{a},{b}"
Join(a, b) ==
    CASE a = "116.4" /\ b = "39.9" -> LngLat
      [] a = "39.9" /\ b = "116.4" -> LatLng
      [] OTHER -> "other"

\* swap_coord_order of the Baidu adapter: two parts are exchanged, anything
\* else is passed on as it is
swap_coord_order(amap_location) ==
    LET parts == Split(amap_location)
    IN IF Len(parts) = 2 THEN Join(parts[2], parts[1]) ELSE amap_location

\* faulty variant: a location holding a comma is no longer taken as coordinates
ValidCoordinatesNever(loc) == FALSE

\* `if location and "," in location and location != "unknown"`
ValidCoordinates(loc) == Truthy(loc) /\ Len(Split(loc)) > 1 /\ loc # "unknown"

\* faulty variant: the caller's city is passed on without the default
CityAsGiven(c) == c

\* `city or default_city`
CityOrDefault(c) == IF Truthy(c) THEN c ELSE default_city

\* what the caller of resolve_location can pass
LocationValues == {None, "unknown", "Wangfujing", LngLat, "1,2,3"}
AddressValues == {None, "Nanjing Road"}
CityValues == {None, "", "Shanghai"}
IpValues == {None, "1.2.3.4"}

\* geocode of the Baidu adapter: f"{lat},{lng}", or None on any failure
GeocodeReplies == {None, LatLng}

\* ip_locate: {"error": ...} on failure, else location (f"{y},{x}" or None)
\* and city (possibly empty)
IpReply(loc, c, failed) == [location |-> loc, city |-> c, error |-> failed]
IpReplies ==
    {IpReply(None, None, TRUE)}
        \cup {IpReply(loc, c, FALSE) : loc \in {None, LatLng}, c \in {"", "Guangzhou"}}

\* smart_search has not been entered
SearchIdle ==
    /\ taste = None
    /\ cuisine = None
    /\ keywords = None
    /\ budget_max = NoBudget
    /\ final_keywords = None
    /\ final_types = None
    /\ result = EmptyResult
    /\ idx = 0
    /\ existing_ids = {}
    /\ all_restaurants = <<>>
    /\ existing_relaxed = <<>>
    /\ ladder = <<>>
    /\ ret = None

search_locals == <<taste, cuisine, keywords, budget_max, final_keywords, final_types,
                   result, idx, existing_ids, all_restaurants, existing_relaxed,
                   ladder, ret>>

agent_vars == <<tasks, running, responses>>

InitLocate ==
    /\ location \in LocationValues
    /\ address \in AddressValues
    /\ city \in CityValues
    /\ ip \in IpValues
    /\ resolved = <<None, None>>
    /\ pc = "start"
    /\ calls = <<>>
    /\ SearchIdle
    /\ tasks = NoTasks
    /\ running = {}
    /\ responses = <<>>

\* `return a, b` of resolve_location; recommend binds the pair
Return(loc, c) ==
    /\ resolved' = <<loc, c>>
    /\ pc' = "resolved"

\* lines 345-347: coordinates were supplied
UseCoordinates ==
    /\ pc = "start"
    /\ ValidCoordinates(location)
    /\ Return(location, CityOrDefault(city))
    /\ UNCHANGED <<location, address, city, ip, calls, search_locals, agent_vars>>

\* lines 349-353: an address was supplied, geocode is awaited
Geocode ==
    /\ pc = "start"
    /\ ~ValidCoordinates(location)
    /\ Truthy(address)
    /\ \E reply \in GeocodeReplies :
          /\ calls' = Append(calls, [step |-> "geocode", address |-> address,
                                     city |-> city, resp |-> reply])
          /\ IF Truthy(reply)
             THEN Return(reply, CityOrDefault(city))
             ELSE pc' = "ip" /\ UNCHANGED resolved
    /\ UNCHANGED <<location, address, city, ip, search_locals, agent_vars>>

\* line 350, `if address` not taken
NoAddress ==
    /\ pc = "start"
    /\ ~ValidCoordinates(location)
    /\ ~Truthy(address)
    /\ pc' = "ip"
    /\ UNCHANGED <<location, address, city, ip, resolved, calls, search_locals, agent_vars>>

\* lines 355-367: ip_locate is awaited, then the city-level answers
IpLocate ==
    /\ pc = "ip"
    /\ \E ip_result \in IpReplies :
          /\ calls' = Append(calls, [step |-> "ip_locate", ip |-> ip, resp |-> ip_result])
          /\ IF Truthy(ip_result.city)
             THEN IF Truthy(ip_result.location)
                  THEN Return(ip_result.location, ip_result.city)
                  ELSE Return("unknown", ip_result.city)
             ELSE IF Truthy(city)
                  THEN Return("unknown", city)
                  ELSE Return("unknown", default_city)
    /\ UNCHANGED <<location, address, city, ip, search_locals, agent_vars>>

\* recommend -> smart_search -> _do_search -> search_nearby of the Baidu
\* adapter: the location is sent after swap_coord_order
SearchNearby ==
    /\ pc = "resolved"
    /\ Truthy(resolved[1])
    /\ resolved[1] # "unknown"
    /\ calls' = Append(calls, [step |-> "search_nearby",
                               sent |-> swap_coord_order(resolved[1])])
    /\ pc' = "sent"
    /\ UNCHANGED <<location, address, city, ip, resolved, search_locals, agent_vars>>

\* _do_search with no coordinates: the search is by keyword within the city
SearchByKeyword ==
    /\ pc = "resolved"
    /\ ~(Truthy(resolved[1]) /\ resolved[1] # "unknown")
    /\ calls' = Append(calls, [step |-> "search_by_keyword", city |-> resolved[2]])
    /\ pc' = "sent"
    /\ UNCHANGED <<location, address, city, ip, resolved, search_locals, agent_vars>>

NextLocate ==
    \/ UseCoordinates
    \/ Geocode
    \/ NoAddress
    \/ IpLocate
    \/ SearchNearby
    \/ SearchByKeyword

SpecLocate == InitLocate /\ [][NextLocate]_vars

\* ------------------------------------------- the single-pass smart_search
\* (src/amap/food_api_service.py): one search, one budget filter, no ladder.

\* `final_keywords = cuisine or keywords`, then the first cuisine of the
\* taste, then the generic term
AmapKeywords(c, k, t) ==
    IF Truthy(c) THEN c
    ELSE IF Truthy(k) THEN k
    ELSE IF Truthy(t) /\ get_cuisines_by_taste(t) # <<>> THEN get_cuisines_by_taste(t)[1]
    ELSE GenericTerm

InitAmap ==
    /\ location \in {"116.4,39.9", "unknown"}
    /\ taste \in TasteValues
    /\ cuisine \in CuisineValues
    /\ keywords \in KeywordValues
    /\ budget_max \in {NoBudget} \cup (0..MaxBudget)
    /\ pc = "start"
    /\ final_keywords = None
    /\ final_types = None
    /\ result = EmptyResult
    /\ idx = 0
    /\ existing_ids = {}
    /\ all_restaurants = <<>>
    /\ existing_relaxed = <<>>
    /\ calls = <<>>
    /\ ladder = <<>>
    /\ ret = None
    /\ OutsideIdle

\* lines 380-391: the keyword choice and the one search
AmapSearch ==
    /\ pc = "start"
    /\ LET fk == AmapKeywords(cuisine, keywords, taste)
           req == Request(location, fk, None)
       IN \E resp \in Responses(req.keywords) :
            /\ final_keywords' = fk
            /\ result' = resp
            /\ calls' = Append(calls, Call("primary", req, resp))
            /\ pc' = "filter"
    /\ UNCHANGED <<args, outside, final_types, idx, existing_ids, all_restaurants,
                   existing_relaxed, ladder, ret>>

\* lines 393-394: `if not restaurants: return result`
AmapReturnEmpty ==
    /\ pc = "filter"
    /\ result.restaurants = <<>>
    /\ pc' = "done"
    /\ ret' = "empty"
    /\ UNCHANGED <<args, outside, final_keywords, final_types, result, idx, existing_ids,
                   all_restaurants, existing_relaxed, calls, ladder>>

\* lines 396-403: the budget filter, applied if a budget was given, and kept
\* only if it leaves something
AmapFilter ==
    /\ pc = "filter"
    /\ result.restaurants # <<>>
    /\ IF BudgetFalsy(budget_max)
       THEN /\ pc' = "done"
            /\ ret' = "no budget"
            /\ UNCHANGED <<result, ladder>>
       ELSE IF FilterRaises(result.restaurants)
       THEN Overflow
       ELSE
       LET filtered == _filter_by_budget(result.restaurants, budget_max, TRUE)
       IN /\ ladder' = Append(ladder, Outcome(1, filtered))
          /\ pc' = "done"
          /\ IF Matched(filtered)
             THEN /\ result' = [result EXCEPT !.restaurants = filtered,
                                              !.count = Len(filtered)]
                  /\ ret' = "filtered"
             ELSE /\ ret' = "unfiltered"
                  /\ UNCHANGED result
    /\ UNCHANGED <<args, outside, final_keywords, final_types, idx, existing_ids,
                   all_restaurants, existing_relaxed, calls>>

NextAmap ==
    \/ AmapSearch
    \/ AmapReturnEmpty
    \/ AmapFilter

SpecAmap == InitAmap /\ [][NextAmap]_vars

\* ------------------------------------------------- the JSON-RPC endpoint
\* (src/baidu/main.py): handle_a2a, FoodDeliveryAgent.process_task and the
\* task store self.tasks of the one module-level agent.

\* self.skill_handlers
skill_handlers == {"recommend", "search", "detail"}

TaskIds == {"t1", "t2"}

\* the request bodies of the model: method, params.id, params.skill_id
Rpc(method, id, skill_id) == [method |-> method, id |-> id, skill_id |-> skill_id]

RequestValues ==
    {Rpc("tasks/send", id, skill) : id \in TaskIds, skill \in {None, "recommend", "fly"}}
        \cup {Rpc("tasks/get", id, None) : id \in TaskIds}
        \cup {Rpc("agent/info", None, None), Rpc("tasks/cancel", "t1", None)}

\* how `await handler(params)` can end: a text built from the provider's
\* answers, or an exception (load_agent_card: "loaded" or "raised")
HandlerOutcomes == {"venues", "no venue", "raised"}

\* result_text of process_task
ResultText(skill_id, outcome) ==
    IF skill_id \notin skill_handlers THEN "unknown skill"
    ELSE IF outcome = "raised" THEN "execution failed"
    ELSE outcome

\* the task process_task builds; the timestamp is the time of its completion
Task(task_id, text, now) ==
    [id |-> task_id, state |-> "completed", timestamp |-> now, text |-> text]

NullTask == [id |-> None, state |-> None, timestamp |-> 0, text |-> None]

\* the JSON-RPC response: either an error member or a result member
Response(rid, req, outcome, kind, error, task) ==
    [rid |-> rid, req |-> req, outcome |-> outcome, kind |-> kind,
     error |-> error, task |-> task]

ErrorResponse(rid, req, error) == Response(rid, req, None, "error", error, NullTask)

\* requests received so far; the next one is numbered Received + 1
Received == Len(responses) + Cardinality(running)

\* datetime.now(), as the number of responses already sent
Now == Len(responses)

\* faulty variant: a task already stored is not overwritten
StoreOnce(store, task) ==
    IF task.id \in DOMAIN store THEN store
    ELSE [t \in DOMAIN store \cup {task.id} |-> IF t = task.id THEN task ELSE store[t]]

\* self.tasks[task_id] = task
Store(store, task) ==
    [t \in DOMAIN store \cup {task.id} |-> IF t = task.id THEN task ELSE store[t]]

service_vars == <<location, address, city, ip, resolved, pc, calls, search_locals>>

InitAgent ==
    /\ tasks = NoTasks
    /\ running = {}
    /\ responses = <<>>
    /\ location = None
    /\ address = None
    /\ city = None
    /\ ip = None
    /\ resolved = <<None, None>>
    /\ pc = "start"
    /\ calls = <<>>
    /\ SearchIdle

Reply(response) == responses' = Append(responses, response)

\* lines 339-343: tasks/send without skill_id
SendNoSkill ==
    /\ Received < MaxRequests
    /\ \E req \in RequestValues :
          /\ req.method = "tasks/send"
          /\ ~Truthy(req.skill_id)
          /\ Reply(ErrorResponse(Received + 1, req, "missing skill_id"))
    /\ UNCHANGED <<tasks, running, service_vars>>

\* lines 345-346 with process_task lines 247-250, 257-269: no handler for
\* the skill, nothing is awaited
SendUnknownSkill ==
    /\ Received < MaxRequests
    /\ \E req \in RequestValues :
          /\ req.method = "tasks/send"
          /\ Truthy(req.skill_id)
          /\ req.skill_id \notin skill_handlers
          /\ LET task == Task(req.id, ResultText(req.skill_id, None), Now)
             IN /\ tasks' = Store(tasks, task)
                /\ Reply(Response(Received + 1, req, None, "task", "", task))
    /\ UNCHANGED <<running, service_vars>>

\* lines 345 and 247-253: the handler of a known skill is awaited
SendStart ==
    /\ Received < MaxRequests
    /\ \E req \in RequestValues :
          /\ req.method = "tasks/send"
          /\ req.skill_id \in skill_handlers
          /\ running' = running \cup {[rid |-> Received + 1, req |-> req]}
    /\ UNCHANGED <<tasks, responses, service_vars>>

\* lines 253-269 and 346: the handler has ended, the task is stored and returned
SendFinish ==
    /\ \E h \in running, outcome \in HandlerOutcomes :
          LET task == Task(h.req.id, ResultText(h.req.skill_id, outcome), Now)
          IN /\ tasks' = Store(tasks, task)
             /\ running' = running \ {h}
             /\ Reply(Response(h.rid, h.req, outcome, "task", "", task))
    /\ UNCHANGED service_vars

\* lines 348-353
TasksGet ==
    /\ Received < MaxRequests
    /\ \E req \in RequestValues :
          /\ req.method = "tasks/get"
          /\ IF req.id \in DOMAIN tasks
             THEN Reply(Response(Received + 1, req, None, "task", "", tasks[req.id]))
             ELSE Reply(ErrorResponse(Received + 1, req, "Task not found"))
    /\ UNCHANGED <<tasks, running, service_vars>>

\* lines 355-356 and 361-362: the agent card is read from a file, which can fail
AgentInfo ==
    /\ Received < MaxRequests
    /\ \E req \in RequestValues, loaded \in BOOLEAN :
          /\ req.method = "agent/info"
          /\ IF loaded
             THEN Reply(Response(Received + 1, req, "loaded", "card", "", NullTask))
             ELSE Reply(Response(Received + 1, req, "raised", "error", "exception",
                                 NullTask))
    /\ UNCHANGED <<tasks, running, service_vars>>

\* lines 358-359
UnknownMethod ==
    /\ Received < MaxRequests
    /\ \E req \in RequestValues :
          /\ req.method \notin {"tasks/send", "tasks/get", "agent/info"}
          /\ Reply(ErrorResponse(Received + 1, req, "Unknown method"))
    /\ UNCHANGED <<tasks, running, service_vars>>

NextAgent ==
    \/ SendNoSkill
    \/ SendUnknownSkill
    \/ SendStart
    \/ SendFinish
    \/ TasksGet
    \/ AgentInfo
    \/ UnknownMethod

SpecAgent == InitAgent /\ [][NextAgent]_vars

\* ---------------------------------------------------------------- types
TypeOK ==
    /\ pc \in {"start", "merge", "broaden", "check", "s2", "s3", "s4", "s5", "done",
              "raised"}
    /\ budget_max \in {NoBudget} \cup (0..MaxBudget)
    /\ idx \in 0..4
    /\ Len(calls) <= 5

\* ------------------------------------------------------- derived history
\* the candidate list the ladder starts from (defined once pc has passed the searches)
Candidates == IF ladder # <<>> THEN all_restaurants ELSE result.restaurants

PastSearches == pc \in {"check", "s2", "s3", "s4", "s5", "done"}

CallsOf(step) == SelectSeq(calls, LAMBDA c : c.step = step)

\* what each strategy yields on the candidate list of this request
Yield(k) ==
    CASE k = 1 -> _filter_by_budget(all_restaurants, budget_max, FALSE)
      [] k = 2 -> _filter_by_budget(all_restaurants, relaxed_budget(budget_max), FALSE)
      [] k = 3 -> _filter_by_budget(all_restaurants, budget_max, TRUE)
      [] k = 4 -> IF CallsOf("strategy 4") = <<>> THEN <<>>
                  ELSE _filter_by_budget(CallsOf("strategy 4")[1].resp.restaurants,
                                         budget_max, TRUE)
      [] k = 5 -> FirstFive(all_restaurants)

\* ------------------------------------------------------------------- C1
\* C1: with a non-empty candidate list and a budget B >= 1 the strategies are
\* evaluated in the order 1, 2, 3, 4, 5; a strategy is evaluated only after
\* every earlier one yielded nothing; the result returned is the yield of the
\* first strategy that yields something; and after a strategy has matched no
\* strategy is evaluated and no provider search is issued any more.
C1_InOrder ==
    /\ \A k \in 1..Len(ladder) : ladder[k].k = k /\ ladder[k].n = Len(Yield(k))
    /\ \A k \in 1..(Len(ladder) - 1) : ladder[k].n = 0
    /\ (pc = "done" /\ ladder # <<>>) =>
          /\ ladder[Len(ladder)].n > 0
          /\ result.restaurants = Yield(Len(ladder))

C1_Step ==
    /\ (pc = "check" /\ result.restaurants # <<>> /\ budget_max >= 1) => Len(ladder') = 1
    /\ (ladder # <<>> /\ ladder[Len(ladder)].n > 0) => (ladder' = ladder /\ calls' = calls)
    /\ Len(calls') > Len(calls) /\ ladder' # <<>> => ladder'[Len(ladder')].k = 4

C1_FixedOrderFirstMatch == [](C1_InOrder) /\ [][C1_Step]_vars

\* strategy 4 returned after strategies 1-3 had been tried and had failed
C1_Witness ==
    /\ pc = "done"
    /\ Len(ladder) = 4
    /\ ret = "strategy 4"
    /\ Len(calls) >= 2

\* ---------------------------------------------------- costs as the claims read them
\* a venue's cost is known when its price string is a number
KnownCost(r) == r.cost.text = "num"

\* known cost <= B, the cost compared as the number it is (2.5 > 2)
WithinBudget(r, B) == KnownCost(r) /\ r.cost.halves <= 2 * B

\* known cost <= 1.5 * B
WithinLoosened(r, B) == KnownCost(r) /\ r.cost.halves <= 3 * B

Some(restaurants, P(_)) == \E k \in 1..Len(restaurants) : P(restaurants[k])

NotesOf(res) == {res.relaxed[k] : k \in 1..Len(res.relaxed)}

\* ------------------------------------------------------------------- C2
\* C2: for a budget B >= 1 and a candidate list holding a venue of known cost
\* <= B (fractional costs such as 2.5 included), the request returns exactly
\* the venues of known cost <= B, in their original order, and strategy 1
\* adds no relaxation note.
C2_StrictExact ==
    (/\ pc = "done"
     /\ budget_max >= 1
     /\ Some(Candidates, LAMBDA r : WithinBudget(r, budget_max)))
    => /\ result.restaurants =
              SelectSeq(Candidates, LAMBDA r : WithinBudget(r, budget_max))
       /\ result.relaxed = existing_relaxed

\* ------------------------------------------------------------------- C3
\* C3: for a budget B >= 1 and a candidate list with no venue of known cost
\* <= B but one of known cost <= 1.5 * B, strategy 2 returns: the result holds
\* the venues of known cost <= 1.5 * B, none of unknown cost, and the trail
\* holds the note "budget loosened to N" with N = 1.5 * B truncated.
C3_LoosenedFires ==
    (/\ pc = "done"
     /\ budget_max >= 1
     /\ ~Some(Candidates, LAMBDA r : WithinBudget(r, budget_max))
     /\ Some(Candidates, LAMBDA r : WithinLoosened(r, budget_max)))
    => /\ ret = "strategy 2"
       /\ result.restaurants =
              SelectSeq(Candidates, LAMBDA r : WithinLoosened(r, budget_max))
       /\ NoteLoosened((3 * budget_max) \div 2) \in NotesOf(result)

\* ------------------------------------------------------------------- C4
\* C4: for a budget B >= 1 and a candidate list with no venue of known cost
\* <= B or <= 1.5 * B and at least one venue of unknown or unparseable cost,
\* strategy 3 returns: the result is exactly the unknown-cost venues in their
\* original order, with the note "included venues with unknown price", and
\* no generic search is issued.
C4_UnknownFires ==
    (/\ pc = "done"
     /\ budget_max >= 1
     /\ ~Some(Candidates, LAMBDA r : WithinBudget(r, budget_max))
     /\ ~Some(Candidates, LAMBDA r : WithinLoosened(r, budget_max))
     /\ Some(Candidates, LAMBDA r : ~KnownCost(r)))
    => /\ ret = "strategy 3"
       /\ result.restaurants = SelectSeq(Candidates, LAMBDA r : ~KnownCost(r))
       /\ NoteUnknown \in NotesOf(result)
       /\ CallsOf("strategy 4") = <<>>

\* ------------------------------------------------------------------- C5
\* C5: when strategies 1-4 all yield nothing, the request returns the first
\* min(5, n) venues of the n candidates in their original order, count is
\* that number, the trail is not empty and ends with the note that no venue
\* within budget was found; the list returned never has more than 5 venues.
C5_TerminalFallback ==
    (/\ pc = "done"
     /\ ladder # <<>>
     /\ \A k \in 1..4 : Yield(k) = <<>>)
    => LET n == Len(all_restaurants)
           m == IF n < 5 THEN n ELSE 5
       IN /\ result.restaurants = SubSeq(all_restaurants, 1, m)
          /\ result.count = m
          /\ Len(result.restaurants) <= 5
          /\ result.relaxed # <<>>
          /\ result.relaxed[Len(result.relaxed)] = NoteFallback

\* the fallback cut a candidate list of more than 5 venues down to 5
C5_Witness ==
    /\ pc = "done"
    /\ ret = "strategy 5"
    /\ Len(all_restaurants) > 5
    /\ Len(result.restaurants) = 5
    /\ \A k \in 1..4 : Yield(k) = <<>>

\* ------------------------------------------------------------------- C6
\* C6: if any provider search of the request returned a venue, the list
\* returned is not empty (an empty list is returned only when every search
\* returned nothing or failed).
C6_NonEmptyWhenData ==
    (pc = "done" /\ \E i \in 1..Len(calls) : calls[i].resp.restaurants # <<>>)
    => result.restaurants # <<>>

\* the primary search found nothing, a later search did, and venues are returned
C6_Witness ==
    /\ pc = "done"
    /\ Len(calls) >= 2
    /\ calls[1].resp.restaurants = <<>>
    /\ calls[2].resp.restaurants # <<>>
    /\ result.restaurants # <<>>

\* ------------------------------------------------------------------- C7
\* C7: every provider result set having unique identifiers, the list built
\* by the multi-category merge never holds two venues with the same
\* identifier, whatever the overlap of the primary and the additional results.
C7_NoDuplicateIds ==
    \A i, j \in 1..Len(result.restaurants) :
        i # j => result.restaurants[i].id # result.restaurants[j].id

\* a merge where an additional result overlaps the primary one and a venue
\* absent from the primary result comes back from both additional searches
C7_Witness ==
    /\ pc = "check"
    /\ Len(CallsOf("merge")) = 2
    /\ IdsOf(calls[1].resp.restaurants) \cap IdsOf(calls[2].resp.restaurants) # {}
    /\ (IdsOf(calls[2].resp.restaurants) \cap IdsOf(calls[3].resp.restaurants))
           \ IdsOf(calls[1].resp.restaurants) # {}

\* ------------------------------------------------------------------- C8
\* C8: with a taste mapped to more than one cuisine, no explicit cuisine and a
\* primary result of fewer than 10 venues (0 included), one additional search
\* is issued for each remaining mapped cuisine, in the taste's order.
C8_MergeWheneverFew ==
    (/\ pc = "done"
     /\ Truthy(taste)
     /\ ~Truthy(cuisine)
     /\ Len(get_cuisines_by_taste(taste)) > 1
     /\ Len(calls[1].resp.restaurants) < 10)
    => /\ Len(CallsOf("merge")) = Len(get_cuisines_by_taste(taste)) - 1
       /\ \A k \in 1..Len(CallsOf("merge")) :
              CallsOf("merge")[k].keywords = get_cuisines_by_taste(taste)[k + 1]

\* ------------------------------------------------------------------- C9
\* C9: no additional mapped-cuisine search is issued when an explicit cuisine
\* was given, or explicit keywords were given (a taste being present or not),
\* or the primary result holds at least 10 venues.
C9_MergeSkipped ==
    (/\ pc = "done"
     /\ \/ Truthy(cuisine)
        \/ Truthy(keywords)
        \/ Len(calls[1].resp.restaurants) >= 10)
    => CallsOf("merge") = <<>>

\* ------------------------------------------------------------------ C10
\* the list a merge of the first k searches must give: the primary result,
\* then of each additional result the venues not seen before, in provider order
RECURSIVE MergedUpTo(_)
MergedUpTo(k) ==
    IF k = 1 THEN calls[1].resp.restaurants
    ELSE LET prev == MergedUpTo(k - 1)
         IN prev \o SelectSeq(calls[k].resp.restaurants,
                              LAMBDA r : r.id \notin IdsOf(prev))

\* C10: during and after a merge the merged list is the primary result in its
\* original order followed by the not-yet-seen venues of each additional
\* search, in the order the searches were issued (the taste's cuisine order,
\* one search after the other) and in provider order within a search.
C10_MergeOrder ==
    LET merges == CallsOf("merge")
        list == IF pc = "merge" THEN result.restaurants ELSE Candidates
        primary == calls[1].resp.restaurants
    IN (merges # <<>> /\ (pc = "merge" \/ PastSearches)) =>
          /\ list = MergedUpTo(1 + Len(merges))
          /\ SubSeq(list, 1, Len(primary)) = primary
          /\ \A k \in 1..Len(merges) :
                /\ calls[k + 1] = merges[k]
                /\ merges[k].keywords = get_cuisines_by_taste(taste)[k + 1]

\* both additional searches added venues, and the merged list is not in
\* identifier order (it keeps the order of arrival)
C10_Witness ==
    /\ pc = "check"
    /\ Len(CallsOf("merge")) = 2
    /\ Len(MergedUpTo(1)) < Len(MergedUpTo(2))
    /\ Len(MergedUpTo(2)) < Len(MergedUpTo(3))
    /\ \E i, j \in 1..Len(result.restaurants) :
          i < j /\ result.restaurants[i].id > result.restaurants[j].id

\* ------------------------------------------------------------------ C11
\* the term the priority rule selects: cuisine, else keywords, else the first
\* cuisine mapped from the taste, else none
PriorityTerm ==
    IF cuisine # None THEN cuisine
    ELSE IF keywords # None THEN keywords
    ELSE IF taste \in DOMAIN taste_keywords THEN taste_keywords[taste][1]
    ELSE None

C12_BroadenFirst ==
    /\ pc = "broaden" => ladder = <<>>
    /\ (PastSearches /\ calls[1].resp.restaurants = <<>> /\ final_keywords # None) =>
          /\ Len(calls) >= 2
          /\ calls[2].step = "broaden"
          /\ calls[2].keywords = GenericTerm
          /\ calls[2].resp.restaurants # <<>> =>
                /\ Candidates = calls[2].resp.restaurants
                /\ pc = "check" => (result.relaxed = <<NoteBroadened>> /\ ladder = <<>>)
                /\ ladder # <<>> => existing_relaxed = <<NoteBroadened>>
                /\ (pc = "done" /\ budget_max >= 1) => ladder # <<>>
          /\ calls[2].resp.restaurants = <<>> =>
                /\ Len(calls) = 2
                /\ ladder = <<>>
                /\ pc = "done" => (ret = "empty" /\ result.restaurants = <<>>)

\* no budget, an empty primary result, and the generic search found venues
C12_Witness ==
    /\ pc = "done"
    /\ budget_max = NoBudget
    /\ calls[1].resp.restaurants = <<>>
    /\ Len(calls) = 2
    /\ calls[2].step = "broaden"
    /\ result.restaurants = calls[2].resp.restaurants
    /\ result.restaurants # <<>>
    /\ result.relaxed = <<NoteBroadened>>

\* ------------------------------------------------------------------ C13
\* the notes the budget ladder writes
BudgetNotes ==
    {NoteLoosened(n) : n \in 0..(2 * MaxBudget + 2)} \cup {NoteUnknown, NoteGeneric, NoteFallback}

\* C13: for every supplied budget B >= 0, 0 included, a result returned
\* without a budget-relaxation note holds only venues of known cost <= B
\* (the cost read as the code reads it, cut to its integer part).
C13_SuppliedBudgetApplied ==
    (/\ pc = "done"
     /\ budget_max >= 0
     /\ NotesOf(result) \cap BudgetNotes = {})
    => \A k \in 1..Len(result.restaurants) :
          /\ KnownCost(result.restaurants[k])
          /\ price_num(result.restaurants[k].cost) <= budget_max

\* ------------------------------------------------------------------ C14
\* the candidate list as the searches of the request determine it
ExpectedCandidates ==
    IF CallsOf("broaden") # <<>> /\ CallsOf("broaden")[1].resp.restaurants # <<>>
    THEN CallsOf("broaden")[1].resp.restaurants
    ELSE MergedUpTo(1 + Len(CallsOf("merge")))

\* C14: with no budget supplied the ladder is skipped: the list returned is
\* the (merged or scope-broadened) candidate list, same venues, order and
\* count, no budget note is added, and the only searches are the primary,
\* the merge and the scope-broadening ones.
C14_NoBudgetAsIs ==
    (pc = "done" /\ budget_max = NoBudget) =>
       /\ ladder = <<>>
       /\ result.restaurants = ExpectedCandidates
       /\ result.restaurants # <<>> => result.count = Len(ExpectedCandidates)
       /\ NotesOf(result) \cap BudgetNotes = {}
       /\ \A i \in 1..Len(calls) : calls[i].step \in {"primary", "merge", "broaden"}

\* no budget and a merge that added venues: the merged list comes back whole
C14_Witness ==
    /\ pc = "done"
    /\ budget_max = NoBudget
    /\ Len(CallsOf("merge")) = 2
    /\ Len(result.restaurants) > Len(calls[1].resp.restaurants)
    /\ Len(result.restaurants) > 5

\* ------------------------------------------------------------------ C15
\* the note each strategy writes when it is the one that returns
NoteOfStrategy(k) ==
    CASE k = 2 -> NoteLoosened(relaxed_budget(budget_max))
      [] k = 3 -> NoteUnknown
      [] k = 4 -> NoteGeneric
      [] OTHER -> NoteFallback

\* the scope-broadening search of this request found venues and was adopted
BroadeningAdopted ==
    /\ CallsOf("broaden") # <<>>
    /\ CallsOf("broaden")[1].resp.restaurants # <<>>

\* C15: once the "scope broadened" note has been recorded, the trail of the
\* result finally returned has that note first, followed by the note of the
\* budget strategy (2, 3, 4 or 5) that fired; no recorded note is dropped or
\* replaced.
C15_TrailAppendOnly ==
    (pc = "done" /\ BroadeningAdopted) =>
       /\ result.relaxed # <<>>
       /\ result.relaxed[1] = NoteBroadened
       /\ Len(ladder) >= 2 =>
             result.relaxed = <<NoteBroadened, NoteOfStrategy(Len(ladder))>>

\* ------------------------------------------------------------------ C16
\* the list strategy k filters: the candidates, or the generic reply for k = 4
InputOf(k) ==
    IF k = 4
    THEN IF CallsOf("strategy 4") = <<>> THEN <<>>
         ELSE CallsOf("strategy 4")[1].resp.restaurants
    ELSE all_restaurants

\* the acceptance test of strategy k at ceiling B, applied to a list
TestOf(k, restaurants, B) ==
    CASE k = 1 -> _filter_by_budget(restaurants, B, FALSE)
      [] k = 2 -> _filter_by_budget(restaurants, relaxed_budget(B), FALSE)
      [] OTHER -> _filter_by_budget(restaurants, B, TRUE)

Elems(restaurants) == {restaurants[i] : i \in 1..Len(restaurants)}

LadderRuns == budget_max >= 1 /\ ladder # <<>>

C17_GenericRetry ==
    (pc = "done" /\ Len(ladder) >= 4) =>
       /\ CallsOf("strategy 4") # <<>>
       /\ CallsOf("strategy 4")[1].keywords = GenericTerm
       /\ LET generic == CallsOf("strategy 4")[1].resp.restaurants
              wanted == SelectSeq(generic,
                                  LAMBDA r : ~KnownCost(r) \/ WithinBudget(r, budget_max))
          IN IF wanted # <<>>
             THEN /\ ret = "strategy 4"
                  /\ result.restaurants = wanted
                  /\ result.count = Len(wanted)
                  /\ NoteGeneric \in NotesOf(result)
             ELSE ret = "strategy 5"

\* ------------------------------------------------------------------ C19
SomeSearchFailed == \E i \in 1..Len(calls) : calls[i].resp.error

\* C19: an empty list returned after at least one failed search carries the
\* error marker; an empty list returned after searches that all succeeded
\* with zero venues carries none.
C19_FailureDistinguishable ==
    (pc = "done" /\ result.restaurants = <<>>) =>
       (result.error <=> SomeSearchFailed)

\* ------------------------------------------------------------------ C20
\* C20: a failed sub-call (merge search, scope-broadening search, strategy-4
\* generic search) does not end the request: it contributes no venue, the
\* remaining merge searches and strategies still run in order, and the
\* venues already obtained are still returned.
C20_SubCallFailureTolerated ==
    LET merges == CallsOf("merge")
        primary == calls[1].resp.restaurants
    IN /\ \A i \in 1..Len(calls) : calls[i].resp.error => calls[i].resp.restaurants = <<>>
       /\ (PastSearches /\ \E k \in 1..Len(merges) : merges[k].resp.error) =>
             /\ Len(merges) = Len(get_cuisines_by_taste(taste)) - 1
             /\ SubSeq(Candidates, 1, Len(primary)) = primary
             /\ \A k \in 1..Len(merges) :
                   Elems(merges[k].resp.restaurants) \subseteq Elems(Candidates)
             /\ pc = "done" =>
                   (/\ result.restaurants # <<>>
                    /\ budget_max = NoBudget => result.restaurants = Candidates)
       /\ (pc = "done" /\ \E k \in 1..Len(CallsOf("broaden")) :
                              CallsOf("broaden")[k].resp.error) =>
             /\ ret = "empty"
             /\ result = calls[1].resp
       /\ (pc = "done" /\ \E k \in 1..Len(CallsOf("strategy 4")) :
                              CallsOf("strategy 4")[k].resp.error) =>
             /\ ret = "strategy 5"
             /\ [i \in 1..Len(ladder) |-> ladder[i].k] = <<1, 2, 3, 4, 5>>
             /\ result.restaurants = FirstFive(all_restaurants)
             /\ result.restaurants # <<>>

\* the first additional search failed, the second still ran and added venues
C20_Witness ==
    /\ pc = "done"
    /\ Len(CallsOf("merge")) = 2
    /\ CallsOf("merge")[1].resp.error
    /\ ~CallsOf("merge")[2].resp.error
    /\ Len(Candidates) > Len(calls[1].resp.restaurants)
    /\ result.restaurants # <<>>

\* ------------------------------------------------------------------ C18
\* C18: smart_search never raises: whatever the provider answers and whatever
\* the cost values are (numbers, unit-suffixed, empty, sentinel, zero,
\* non-numeric, 'nan', 'inf'), each call returns a result with a possibly
\* empty venue list, and a cost that cannot be parsed counts as unknown.
C18_NeverRaises ==
    /\ pc # "raised"
    /\ pc = "done" => ret \in {"empty", "no budget", "strategy 1", "strategy 2",
                               "strategy 3", "strategy 4", "strategy 5"}

\* ------------------------------------------------------------------ C26
\* how far the request has come: the position in smart_search, then the
\* position in the merge loop
PcRank(p) ==
    CASE p = "start" -> 0
      [] p = "merge" -> 1
      [] p = "broaden" -> 2
      [] p = "check" -> 3
      [] p = "s2" -> 4
      [] p = "s3" -> 5
      [] p = "s4" -> 6
      [] p = "s5" -> 7
      [] OTHER -> 8

Progress == 10 * PcRank(pc) + idx

StepsOf(cs) == [i \in 1..Len(cs) |-> cs[i].step]

C26_Bound ==
    LET n == Len(get_cuisines_by_taste(taste))
        merges == CallsOf("merge")
    IN /\ Progress <= 10 * PcRank("done") + n + 1
       /\ Len(CallsOf("primary")) <= 1
       /\ Len(CallsOf("broaden")) <= 1
       /\ Len(CallsOf("strategy 4")) <= 1
       /\ merges # <<>> =>
             /\ Len(merges) <= n - 1
             /\ Len(calls) <= n + 1
             /\ CallsOf("broaden") = <<>>
       /\ (calls # <<>> /\ calls[1].resp.restaurants = <<>>) =>
             /\ merges = <<>>
             /\ Len(calls) <= 3
             /\ \E k \in 1..3 :
                   StepsOf(calls) = SubSeq(<<"primary", "broaden", "strategy 4">>, 1, k)
       /\ merges = <<>> => Len(calls) <= 3

\* C26: every request ends after a bounded number of provider searches: each
\* step moves the request forward (no step is ever repeated), a taste mapped
\* to n cuisines leads to at most n + 1 searches on the merge path (one
\* primary, at most n - 1 merge searches, at most one strategy-4 search), an
\* empty primary result to at most 3 (primary, scope broadening, strategy 4),
\* and merge and initial scope broadening never both occur in one request.
C26_BoundedSearches == [](C26_Bound) /\ [][Progress' > Progress]_vars

\* the merge path at its longest: primary, two merge searches, strategy 4
C26_Witness ==
    /\ pc = "done"
    /\ Len(get_cuisines_by_taste(taste)) = 3
    /\ StepsOf(calls) = <<"primary", "merge", "merge", "strategy 4">>

\* ------------------------------------------------------------------ C27
\* C27: on every return of smart_search whose result carries no error marker
\* (after merge, scope broadening, each of strategies 1-5, and the no-budget
\* return), the count field equals the length of the returned venue list.
C27_CountIsLength ==
    (pc = "done" /\ ~result.error) => result.count = Len(result.restaurants)

\* a merged list returned as it is: the count was recomputed after the merge
C27_Witness ==
    /\ pc = "done"
    /\ ret = "no budget"
    /\ ~result.error
    /\ CallsOf("merge") # <<>>
    /\ Len(result.restaurants) > Len(calls[1].resp.restaurants)
    /\ result.count = Len(result.restaurants)
    /\ result.count # calls[1].resp.count

\* --------------------------------------------------- resolve_location log
Resolved == pc \in {"resolved", "sent"}

Geocodes == CallsOf("geocode")

IpLocates == CallsOf("ip_locate")

\* the geocode and ip_locate calls made so far, as step names in call order
LocateSteps == StepsOf(SelectSeq(calls, LAMBDA c : c.step \in {"geocode", "ip_locate"}))

\* the caller's location is a coordinate string (it holds a comma)
CoordinatesSupplied == location \in {LngLat, LatLng, "1,2,3"}

\* the four sources up to the answer of ip_locate
C21_Order ==
    /\ LocateSteps \in {<<>>, <<"geocode">>, <<"ip_locate">>, <<"geocode", "ip_locate">>}
    /\ Geocodes # <<>> => (~CoordinatesSupplied /\ Truthy(address))
    /\ IpLocates # <<>> =>
          /\ ~CoordinatesSupplied
          /\ IF Truthy(address)
             THEN Geocodes # <<>> /\ ~Truthy(Geocodes[1].resp)
             ELSE Geocodes = <<>>
    /\ pc = "ip" => IpLocates = <<>>
    /\ Resolved =>
          /\ CoordinatesSupplied =>
                (calls = <<>> \/ LocateSteps = <<>>) /\ resolved[1] = location
          /\ (~CoordinatesSupplied /\ Truthy(address)) => Geocodes # <<>>
          /\ (Geocodes # <<>> /\ Truthy(Geocodes[1].resp)) =>
                IpLocates = <<>> /\ resolved[1] = Geocodes[1].resp
          /\ (~CoordinatesSupplied
                /\ (Geocodes = <<>> \/ ~Truthy(Geocodes[1].resp))) => IpLocates # <<>>
          /\ (IpLocates # <<>> /\ Truthy(IpLocates[1].resp.city)) =>
                /\ resolved[2] = IpLocates[1].resp.city
                /\ resolved[1] = IF Truthy(IpLocates[1].resp.location)
                                 THEN IpLocates[1].resp.location ELSE "unknown"

\* the city of the answer is the default city, the caller having given none
DefaultCityUsed == Resolved /\ ~Truthy(city) /\ resolved[2] = default_city

IpYieldsNoCity == IpLocates # <<>> /\ ~Truthy(IpLocates[1].resp.city)

\* C21 as stated: the sources are tried in the order supplied coordinates,
\* geocoded address, IP location, default city, the first that succeeds is
\* returned, and the default city is used only when IP location yields no
\* city.
C21_FirstSourceWins ==
    /\ C21_Order
    /\ DefaultCityUsed => IpYieldsNoCity

\* C21 (amended): the sources are tried in the order supplied coordinates,
\* geocoded address, IP location, and the first that succeeds is returned:
\* valid coordinates without any geocode or IP call, the geocoder only when
\* the coordinates are absent or invalid and an address is given, IP location
\* only when both failed. The city-level answer ("unknown" with the caller's
\* city, else the default city) is given only when IP location yields no
\* city; the default city also stands in for a missing caller city beside
\* supplied or geocoded coordinates, without any IP call.
C21_SourceOrder ==
    /\ C21_Order
    /\ Resolved =>
          /\ IpYieldsNoCity <=>
                (IpLocates # <<>> /\ resolved = <<"unknown", CityOrDefault(city)>>)
          /\ IpLocates = <<>> => resolved[2] = CityOrDefault(city)
          /\ DefaultCityUsed => (IpYieldsNoCity \/ IpLocates = <<>>)

\* all four sources in one request: invalid coordinates, the geocoder fails,
\* IP location yields no city, the default city is returned
C21_Witness ==
    /\ Resolved
    /\ LocateSteps = <<"geocode", "ip_locate">>
    /\ IpYieldsNoCity
    /\ resolved = <<"unknown", default_city>>

\* ------------------------------------------------------------------ C22
\* C22: for every combination of inputs and every geocode and IP-location
\* outcome, failures included, the pair returned has a non-empty city, in
\* particular when its coordinates are the "unknown" sentinel.
C22_CityNeverEmpty ==
    Resolved =>
       /\ Truthy(resolved[2])
       /\ resolved[1] = "unknown" => resolved[2] # ""
       /\ Truthy(resolved[1])

\* an empty caller city, no coordinates, and IP location failed
C22_Witness ==
    /\ Resolved
    /\ city = ""
    /\ IpLocates # <<>>
    /\ IpLocates[1].resp.error
    /\ resolved = <<"unknown", default_city>>

\* ------------------------------------------------------------------ C29
\* C29: whenever the caller supplies a non-empty city, the city returned is
\* the caller's city, for every outcome of the geocode and IP-location calls.
C29_CallerCityKept ==
    (Resolved /\ Truthy(city)) => resolved[2] = city

\* ------------------------------------------------------------------ C30
\* C30: in the Baidu adapter the coordinates search_nearby sends are in
\* (latitude,longitude) order whatever their origin (supplied by the caller
\* in (longitude,latitude) order, produced by geocode, produced by
\* ip_locate): the swap is applied once to a (longitude,latitude) value and
\* never to a value already in (latitude,longitude) order.
C30_SentLatitudeFirst ==
    \A i \in 1..Len(calls) :
        (calls[i].step = "search_nearby" /\ resolved[1] \in {LngLat, LatLng}) =>
            calls[i].sent = LatLng

\* ------------------------------------------------------------------ C25
\* C25: in the single-pass search path, when a budget ceiling is supplied the
\* budget filter is applied once with unknown-cost venues discarded: every
\* venue returned has a known cost <= the ceiling (the cost read as the code
\* reads it, cut to its integer part), and if no venue passes the filter the
\* list returned is empty, not the unfiltered search result.
C25_SinglePassStrict ==
    (pc = "done" /\ budget_max >= 1) =>
       /\ \A k \in 1..Len(result.restaurants) :
             /\ KnownCost(result.restaurants[k])
             /\ price_num(result.restaurants[k].cost) <= budget_max
       /\ result.restaurants = _filter_by_budget(calls[1].resp.restaurants, budget_max, FALSE)

\* ------------------------------------------------------------------ C23
UnknownSkill(req) ==
    req.method = "tasks/send" /\ Truthy(req.skill_id) /\ req.skill_id \notin skill_handlers

UnknownMethodOf(req) == req.method \notin {"tasks/send", "tasks/get", "agent/info"}

\* C23: an unknown method and an unknown skill_id are both answered by a
\* structured error response: the response carries an error member, and no
\* task in state "completed" is returned or stored for the request.
C23_UnknownIsError ==
    \A i \in 1..Len(responses) :
        (UnknownMethodOf(responses[i].req) \/ UnknownSkill(responses[i].req)) =>
            /\ responses[i].kind = "error"
            /\ responses[i].error # ""
            /\ responses[i].task.state # "completed"

\* ------------------------------------------------------------------ C24
\* what the caller reads in a response, the time of completion left aside
Answer(r) ==
    [kind |-> r.kind, error |-> r.error, id |-> r.task.id,
     state |-> r.task.state, text |-> r.task.text]

\* C24: requests are independent: the response to a request is determined by
\* the request and by the provider answers it receives alone (two requests
\* with the same body and the same handler outcome get the same answer), and
\* nothing written while handling one request is read while handling another.
C24_RequestsIndependent ==
    /\ \A i, j \in 1..Len(responses) :
          (/\ responses[i].req = responses[j].req
           /\ responses[i].outcome = responses[j].outcome)
          => Answer(responses[i]) = Answer(responses[j])
    /\ \A i \in 1..Len(responses) :
          responses[i].req.method = "tasks/get" => responses[i].kind = "error"

\* ------------------------------------------------------------------ C28
Max(S) == CHOOSE m \in S : \A n \in S : n <= m

\* the tasks/send requests for an id that had finished when the first n
\* responses had been sent (responses are logged when the handler is done)
FinishedSends(id, n) ==
    {j \in 1..n : /\ responses[j].req.method = "tasks/send"
                  /\ Truthy(responses[j].req.skill_id)
                  /\ responses[j].req.id = id}

C28_Store ==
    /\ DOMAIN tasks = {id \in TaskIds : FinishedSends(id, Len(responses)) # {}}
    /\ \A id \in DOMAIN tasks :
          /\ tasks[id].state = "completed"
          /\ tasks[id].id = id
          /\ tasks[id] = responses[Max(FinishedSends(id, Len(responses)))].task
    /\ \A h \in running :
          FinishedSends(h.req.id, Len(responses)) = {} => h.req.id \notin DOMAIN tasks
    /\ \A i \in 1..Len(responses) :
          responses[i].req.method = "tasks/get" =>
             LET done == FinishedSends(responses[i].req.id, i - 1)
             IN IF done = {}
                THEN responses[i].kind = "error" /\ responses[i].error = "Task not found"
                ELSE responses[i].kind = "task"
                        /\ responses[i].task = responses[Max(done)].task

C28_Step ==
    /\ \A id \in DOMAIN tasks : id \in DOMAIN tasks'
    /\ (Len(responses') > Len(responses)
          /\ LET r == responses'[Len(responses')]
             IN r.req.method # "tasks/send" \/ ~Truthy(r.req.skill_id))
       => tasks' = tasks
    /\ running' # running /\ Len(responses') = Len(responses) => tasks' = tasks

\* C28: a task becomes visible only after its handler has finished: tasks/get
\* for an id answers "Task not found" until some tasks/send with that id has
\* completed, and then returns the task written by the most recently finished
\* tasks/send for that id (of concurrent sends on one id the last to finish
\* overwrites the other); every stored task has state "completed", stored
\* tasks are never removed, and a tasks/send without skill_id stores nothing.
C28_TaskStore == [](C28_Store) /\ [][C28_Step]_vars

\* two sends on the same id ran concurrently, the one received first finished
\* last, and the tasks/get that followed returned its task
C28_Witness ==
    /\ Len(responses) = 3
    /\ responses[1].req.method = "tasks/send"
    /\ responses[2].req.method = "tasks/send"
    /\ responses[3].req.method = "tasks/get"
    /\ responses[1].req.id = responses[3].req.id
    /\ responses[2].req.id = responses[3].req.id
    /\ responses[1].rid = 2
    /\ responses[2].rid = 1
    /\ responses[3].task = responses[2].task
    /\ responses[3].task # responses[1].task

====
